---- MODULE Spec2Model ----
(***************************************************************************)
(* Model of restclient-cpp's static facade (source/restclient.cc):         *)
(*   - RestClient::init / RestClient::disable,                             *)
(*   - the eight one-shot request wrappers, statement by statement, in     *)
(*     both build variants (#if __cplusplus >= 201402L),                   *)
(*   - RestClient::PostFormInfo (constructor, destructor, addFormFile,     *)
(*     addFormContent) over a heap of curl_httppost nodes.                 *)
(* The Connection class and libcurl are collaborators: a request's         *)
(* outcome is a nondeterministic choice among Responses, curl_formadd and  *)
(* curl_global_init may succeed or fail.                                   *)
(***************************************************************************)
EXTENDS Integers, Sequences, FiniteSets, TLC

\* ------------------------------------------------------------------ bounds
MaxCalls == 2      \* facade calls entered in one behaviour
MaxNodes == 3      \* capacity of the heap of form nodes
MaxConns == 2      \* capacity of the heap of Connection objects
MaxInits == 2      \* calls of init, and of disable, in one behaviour

\* --------------------------------------------------------------- constants
CURLE_OK == 0
INIT_OK == 0
INIT_FAILED == 1
NULL == 0

Threads == {1, 2}
MainThread == {1}

Methods == {"get", "post", "postForm", "put", "patch", "del", "head", "options"}
BodyMethods == {"post", "put", "patch"}
UrlMethods == {"get", "del", "head", "options"}
VariantMethods == {"get", "post", "put", "del", "head"}

Urls == {"http://h/a", "http://h/b"}
OneUrl == {"http://h/a"}
CTypes == {"text/plain", "application/json"}
OneCType == {"application/json"}
Payloads == {"{a:1}"}
FileNames == {"A"}
ContentNames == {"B", "C"}
OneName == {"B"}
FilePaths == {"/tmp/f"}
FieldValues == {"v"}

\* CURLcode values curl_global_init can return: CURLE_OK, CURLE_FAILED_INIT,
\* CURLE_OUT_OF_MEMORY
CurlCodes == {CURLE_OK, 2, 27}
\* CURLFORMcode values of curl_formadd: CURL_FORMADD_OK, CURL_FORMADD_MEMORY
FORMADD_OK == 0
FORMADD_MEMORY == 1

ConnAddrs == 1..MaxConns
NodeAddrs == 1..MaxNodes

\* ---------------------------------------------------------------- values
\* RestClient::Response {code, body, headers}
NoResponse == [code |-> 0, body |-> "", headers |-> {}]
Responses ==
  { [code |-> 200, body |-> "ok", headers |-> {<<"Content-Type", "text/plain">>}],
    [code |-> 404, body |-> "not found", headers |-> {<<"Content-Type", "text/plain">>}],
    [code |-> -1, body |-> "Failed to query.", headers |-> {}] }
\* `RestClient::Response ret;` leaves code indeterminate, body and headers empty
GarbageCodes == {0, 7}

NoCall == [method |-> "", url |-> "", ctype |-> "", data |-> ""]
NoConn == [live |-> FALSE, baseUrl |-> "", headers |-> <<>>]
NoNode == [kind |-> "free", name |-> "", value |-> "", next |-> NULL]
NoAdd == [called |-> FALSE, code |-> 0, reported |-> "void"]
NoRequest == [method |-> "", baseUrl |-> "", url |-> "", headers |-> <<>>,
              body |-> "", form |-> <<>>]

VARIABLES
  cxx14,            \* build variant: TRUE iff __cplusplus >= 201402L
  pc,               \* per thread: 0 outside a facade call, else index of the next statement
  call,             \* per thread: arguments of the facade call in progress (or last completed)
  conn,             \* per thread: the local `conn` (address of its Connection, NULL if none)
  ret,              \* per thread: the local `ret`
  retval,           \* per thread: the return-value object of `return conn->m(...)`
  result,           \* per thread: the Response the caller received from the last call
  conns,            \* heap of Connection objects
  oplog,            \* per thread: Connection operations invoked by the call, in order
  served,           \* per thread: the Response the delegated Connection method produced
  lastReq,          \* per thread: the request the call in progress has sent (none outside a call)
  nCalls, nReturned, nConnCreated, nConnDestroyed, nRequests,
  alive,            \* per builder: PostFormInfo object constructed and not yet destroyed
  formPtr,          \* per builder: PostFormInfo::formPtr
  lastFormPtr,      \* per builder: PostFormInfo::lastFormPtr
  heap,             \* heap of curl_httppost nodes
  appended,         \* per builder: fields whose append succeeded, in call order
  lastAdd,          \* per builder: outcome of the last add call (CURLFORMcode and what the caller saw)
  headAtDtor,       \* per builder: formPtr at the moment the destructor ran
  nFormFree,        \* per builder: curl_formfree invocations on this object
  submits,          \* per builder: postForm requests this object was submitted by
  nInit, nDisable,  \* calls of RestClient::init / RestClient::disable
  curlInits, curlCleanups, \* invocations of curl_global_init / curl_global_cleanup
  lastCurlCode,     \* CURLcode of the last curl_global_init
  initRet           \* value returned by the last RestClient::init

callVars == <<pc, call, conn, ret, retval, result, conns, oplog, served, lastReq,
              nCalls, nReturned, nConnCreated, nConnDestroyed, nRequests>>
formVars == <<alive, formPtr, lastFormPtr, heap, appended, lastAdd, headAtDtor, nFormFree>>
initVars == <<nInit, nDisable, curlInits, curlCleanups, lastCurlCode, initRet>>
vars == <<cxx14, submits, callVars, formVars, initVars>>

Init ==
  /\ cxx14 \in BOOLEAN
  /\ pc = [t \in Threads |-> 0]
  /\ call = [t \in Threads |-> NoCall]
  /\ conn = [t \in Threads |-> NULL]
  /\ ret = [t \in Threads |-> NoResponse]
  /\ retval = [t \in Threads |-> NoResponse]
  /\ result = [t \in Threads |-> NoResponse]
  /\ conns = [a \in ConnAddrs |-> NoConn]
  /\ oplog = [t \in Threads |-> <<>>]
  /\ served = [t \in Threads |-> NoResponse]
  /\ lastReq = [t \in Threads |-> NoRequest]
  /\ nCalls = 0 /\ nReturned = 0 /\ nConnCreated = 0 /\ nConnDestroyed = 0
  /\ nRequests = 0
  /\ alive = [t \in Threads |-> TRUE]
  /\ formPtr = [t \in Threads |-> NULL]
  /\ lastFormPtr = [t \in Threads |-> NULL]
  /\ heap = [a \in NodeAddrs |-> NoNode]
  /\ appended = [t \in Threads |-> <<>>]
  /\ lastAdd = [t \in Threads |-> NoAdd]
  /\ headAtDtor = [t \in Threads |-> NULL]
  /\ nFormFree = [t \in Threads |-> 0]
  /\ submits = [t \in Threads |-> 0]
  /\ nInit = 0 /\ nDisable = 0 /\ curlInits = 0 /\ curlCleanups = 0
  /\ lastCurlCode = CURLE_OK
  /\ initRet = INIT_OK

\* ------------------------------------------------------- init / disable
\* Variant of InitResult that hands the CURLcode through.
InitResultRaw(res) == res

InitResult(res) == IF res = CURLE_OK THEN INIT_OK ELSE INIT_FAILED

RestClientInit ==
  /\ nInit < MaxInits
  /\ \E res \in CurlCodes :
       /\ lastCurlCode' = res
       /\ initRet' = InitResult(res)
  /\ curlInits' = curlInits + 1
  /\ nInit' = nInit + 1
  /\ UNCHANGED <<cxx14, submits, callVars, formVars, nDisable, curlCleanups>>

RestClientDisable ==
  /\ nDisable < MaxInits
  /\ curlCleanups' = curlCleanups + 1
  /\ nDisable' = nDisable + 1
  /\ UNCHANGED <<cxx14, submits, callVars, formVars, nInit, curlInits, lastCurlCode, initRet>>

\* ------------------------------------------------------- facade wrappers
\* Variant of Body whose pre-C++14 wrappers without a content type never
\* delete the Connection.
BodyNoDelete(v, m) ==
  IF v /\ m \in {"get", "del", "head"}
    THEN <<"make_unique", "return_call", "scope_exit">>
  ELSE IF v /\ m \in {"post", "put"}
    THEN <<"make_unique", "AppendHeader", "return_call", "scope_exit">>
  ELSE IF m \in BodyMethods
    THEN <<"decl_ret", "new", "AppendHeader", "assign_call", "delete", "return_ret">>
  ELSE <<"decl_ret", "new", "assign_call", "return_ret">>

\* Variant of Body in which patch appends its header after the request.
BodyLateHeader(v, m) ==
  IF v /\ m \in {"get", "del", "head"}
    THEN <<"make_unique", "return_call", "scope_exit">>
  ELSE IF v /\ m \in {"post", "put"}
    THEN <<"make_unique", "AppendHeader", "return_call", "scope_exit">>
  ELSE IF m = "patch"
    THEN <<"decl_ret", "new", "assign_call", "AppendHeader", "delete", "return_ret">>
  ELSE IF m \in BodyMethods
    THEN <<"decl_ret", "new", "AppendHeader", "assign_call", "delete", "return_ret">>
  ELSE <<"decl_ret", "new", "assign_call", "delete", "return_ret">>

\* Variant of Body whose C++14 post and put forget the content type.
BodyCxx14NoHeader(v, m) ==
  IF v /\ m \in {"get", "del", "head", "post", "put"}
    THEN <<"make_unique", "return_call", "scope_exit">>
  ELSE IF m \in BodyMethods
    THEN <<"decl_ret", "new", "AppendHeader", "assign_call", "delete", "return_ret">>
  ELSE <<"decl_ret", "new", "assign_call", "delete", "return_ret">>

\* The statements of a wrapper's body, by build variant and method.
Body(v, m) ==
  IF v /\ m \in {"get", "del", "head"}
    THEN <<"make_unique", "return_call", "scope_exit">>
  ELSE IF v /\ m \in {"post", "put"}
    THEN <<"make_unique", "AppendHeader", "return_call", "scope_exit">>
  ELSE IF m \in BodyMethods
    THEN <<"decl_ret", "new", "AppendHeader", "assign_call", "delete", "return_ret">>
  ELSE <<"decl_ret", "new", "assign_call", "delete", "return_ret">>

\* The statement thread t executes next ("" outside a call).
Stmt(t) == IF pc[t] = 0 THEN "" ELSE Body(cxx14, call[t].method)[pc[t]]

\* `conn` is an automatic object of the calling thread: a store into it
\* touches that thread's object only.
StoreLocal(f, t, x) == [f EXCEPT ![t] = x]

\* The argument of the Connection constructor.
BaseUrlArg == ""
\* The header name the body-bearing wrappers append.
HeaderName == "Content-Type"

\* Variant of AssignResponse that turns a transport failure into an empty
\* Response.
AssignResponseHidesFailure(f, t, r) ==
  [f EXCEPT ![t] = IF r.code < 0 THEN NoResponse ELSE r]

\* Variant of AssignResponse in which the object is shared by all threads
\* (a static Response).
AssignResponseShared(f, t, r) == [x \in DOMAIN f |-> r]

\* `ret = conn->m(...)` and `return conn->m(...)` copy the whole Response into
\* the calling thread's own object.
AssignResponse(f, t, r) == [f EXCEPT ![t] = r]

\* Connection collaborator: constructor, AppendHeader, destructor, and the
\* request a delegated method sends.
ConnNew(cs, a, base) == [cs EXCEPT ![a] = [live |-> TRUE, baseUrl |-> base, headers |-> <<>>]]
ConnAppendHeader(cs, a, n, v) == [cs EXCEPT ![a].headers = Append(@, <<n, v>>)]
ConnDelete(cs, a) == [cs EXCEPT ![a] = NoConn]
ConnRequest(c, k, form) ==
  [method |-> k.method, baseUrl |-> c.baseUrl, url |-> k.url, headers |-> c.headers,
   body |-> k.data, form |-> form]

LiveConns == {a \in ConnAddrs : conns[a].live}

RECURSIVE ChainFields(_, _, _)
\* The fields of the chain starting at node p, in link order (fuel bounds the walk).
ChainFields(h, p, fuel) ==
  IF p = NULL \/ fuel = 0 \/ h[p].kind = "free" THEN <<>>
  ELSE <<[kind |-> h[p].kind, name |-> h[p].name, value |-> h[p].value]>>
         \o ChainFields(h, h[p].next, fuel - 1)

Fields(t) == ChainFields(heap, formPtr[t], MaxNodes + 1)

RECURSIVE CurlFormFree(_, _, _)
\* curl_formfree(p): releases every node of the chain starting at p.
CurlFormFree(h, p, fuel) ==
  IF p = NULL \/ fuel = 0 \/ h[p].kind = "free" THEN h
  ELSE CurlFormFree([h EXCEPT ![p] = NoNode], h[p].next, fuel - 1)

\* Entry of a facade wrapper: binds the arguments.
Call(t, m, u, c, d) ==
  /\ pc[t] = 0
  /\ nCalls < MaxCalls
  /\ m = "postForm" => alive[t]
  /\ call' = [call EXCEPT ![t] = [method |-> m, url |-> u, ctype |-> c, data |-> d]]
  /\ pc' = [pc EXCEPT ![t] = 1]
  /\ oplog' = [oplog EXCEPT ![t] = <<>>]
  /\ served' = [served EXCEPT ![t] = NoResponse]
  /\ lastReq' = [lastReq EXCEPT ![t] = NoRequest]
  /\ result' = [result EXCEPT ![t] = NoResponse]
  /\ nCalls' = nCalls + 1
  /\ UNCHANGED <<cxx14, submits, conn, ret, retval, conns,
                 nReturned, nConnCreated, nConnDestroyed, nRequests,
                 formVars, initVars>>

\* RestClient::Response ret;
DeclRet(t) ==
  /\ Stmt(t) = "decl_ret"
  /\ \E g \in GarbageCodes :
       ret' = AssignResponse(ret, t, [code |-> g, body |-> "", headers |-> {}])
  /\ pc' = [pc EXCEPT ![t] = @ + 1]
  /\ UNCHANGED <<cxx14, submits, call, conn, retval, result, conns, oplog, served, lastReq,
                 nCalls, nReturned, nConnCreated, nConnDestroyed, nRequests,
                 formVars, initVars>>

\* Connection::Connection(baseUrl) on a fresh object.
Construct(t) ==
  \E a \in ConnAddrs :
    /\ ~conns[a].live
    /\ \A b \in ConnAddrs : b < a => conns[b].live
    /\ conns' = ConnNew(conns, a, BaseUrlArg)
    /\ conn' = StoreLocal(conn, t, a)
    /\ oplog' = [oplog EXCEPT ![t] = Append(@, <<"Connection", BaseUrlArg>>)]
    /\ nConnCreated' = nConnCreated + 1
    /\ pc' = [pc EXCEPT ![t] = @ + 1]
    /\ UNCHANGED <<cxx14, submits, call, ret, retval, result, served, lastReq,
                   nCalls, nReturned, nConnDestroyed, nRequests, formVars, initVars>>

\* RestClient::Connection *conn = new RestClient::Connection("");
NewConn(t) == Stmt(t) = "new" /\ Construct(t)

\* auto conn = std::make_unique<RestClient::Connection>("");
MakeUnique(t) == Stmt(t) = "make_unique" /\ Construct(t)

\* conn->AppendHeader("Content-Type", ctype);
AppendHeader(t) ==
  /\ Stmt(t) = "AppendHeader"
  /\ conn[t] # NULL /\ conns[conn[t]].live
  /\ conns' = ConnAppendHeader(conns, conn[t], HeaderName, call[t].ctype)
  /\ oplog' = [oplog EXCEPT ![t] = Append(@, <<"AppendHeader", HeaderName, call[t].ctype>>)]
  /\ pc' = [pc EXCEPT ![t] = @ + 1]
  /\ UNCHANGED <<cxx14, submits, call, conn, ret, retval, result, served, lastReq,
                 nCalls, nReturned, nConnCreated, nConnDestroyed, nRequests,
                 formVars, initVars>>

\* conn->m(url [, data]): the Connection sends one request and produces r.
Delegate(t, r) ==
  LET c == conn[t]
      k == call[t]
  IN /\ c # NULL /\ conns[c].live
     /\ lastReq' = [lastReq EXCEPT ![t] =
                      ConnRequest(conns[c], k,
                                  IF k.method = "postForm" THEN Fields(t) ELSE <<>>)]
     /\ served' = [served EXCEPT ![t] = r]
     /\ oplog' = [oplog EXCEPT ![t] = Append(@, <<k.method, k.url, k.data>>)]
     /\ nRequests' = nRequests + 1
     /\ submits' = [submits EXCEPT ![t] = IF k.method = "postForm" THEN @ + 1 ELSE @]
     /\ pc' = [pc EXCEPT ![t] = @ + 1]

\* ret = conn->m(url [, data]);
AssignCall(t) ==
  /\ Stmt(t) = "assign_call"
  /\ \E r \in Responses :
       /\ Delegate(t, r)
       /\ ret' = AssignResponse(ret, t, r)
  /\ UNCHANGED <<cxx14, call, conn, retval, result, conns,
                 nCalls, nReturned, nConnCreated, nConnDestroyed,
                 formVars, initVars>>

\* return conn->m(url [, data]);   (the return value is built; locals still alive)
ReturnCall(t) ==
  /\ Stmt(t) = "return_call"
  /\ \E r \in Responses :
       /\ Delegate(t, r)
       /\ retval' = AssignResponse(retval, t, r)
  /\ UNCHANGED <<cxx14, call, conn, ret, result, conns,
                 nCalls, nReturned, nConnCreated, nConnDestroyed,
                 formVars, initVars>>

\* Connection::~Connection on the object `conn` points to.
Destroy(t) ==
  /\ conn[t] # NULL /\ conns[conn[t]].live
  /\ conns' = ConnDelete(conns, conn[t])
  /\ oplog' = [oplog EXCEPT ![t] = Append(@, <<"~Connection">>)]
  /\ nConnDestroyed' = nConnDestroyed + 1

\* Variant of DeleteConn that also releases the form the request carried.
DeleteConnFreesForm(t) ==
  /\ Stmt(t) = "delete"
  /\ Destroy(t)
  /\ heap' = IF call[t].method = "postForm"
               THEN CurlFormFree(heap, formPtr[t], MaxNodes + 1) ELSE heap
  /\ pc' = [pc EXCEPT ![t] = @ + 1]
  /\ UNCHANGED <<cxx14, submits, call, conn, ret, retval, result, served, lastReq,
                 nCalls, nReturned, nConnCreated, nRequests, initVars,
                 alive, formPtr, lastFormPtr, appended, lastAdd, headAtDtor, nFormFree>>

\* delete conn;
DeleteConn(t) ==
  /\ Stmt(t) = "delete"
  /\ Destroy(t)
  /\ pc' = [pc EXCEPT ![t] = @ + 1]
  /\ UNCHANGED <<cxx14, submits, call, conn, ret, retval, result, served, lastReq,
                 nCalls, nReturned, nConnCreated, nRequests, formVars, initVars>>

\* return ret;
ReturnRet(t) ==
  /\ Stmt(t) = "return_ret"
  /\ result' = [result EXCEPT ![t] = ret[t]]
  /\ ret' = [ret EXCEPT ![t] = NoResponse]
  /\ conn' = StoreLocal(conn, t, NULL)
  /\ lastReq' = [lastReq EXCEPT ![t] = NoRequest]
  /\ pc' = [pc EXCEPT ![t] = 0]
  /\ nReturned' = nReturned + 1
  /\ UNCHANGED <<cxx14, submits, call, retval, conns, oplog, served,
                 nCalls, nConnCreated, nConnDestroyed, nRequests, formVars, initVars>>

\* End of a C++14 wrapper: the unique_ptr destroys the Connection, then the
\* caller receives the return value.
ScopeExit(t) ==
  /\ Stmt(t) = "scope_exit"
  /\ Destroy(t)
  /\ result' = [result EXCEPT ![t] = retval[t]]
  /\ retval' = [retval EXCEPT ![t] = NoResponse]
  /\ conn' = StoreLocal(conn, t, NULL)
  /\ lastReq' = [lastReq EXCEPT ![t] = NoRequest]
  /\ pc' = [pc EXCEPT ![t] = 0]
  /\ nReturned' = nReturned + 1
  /\ UNCHANGED <<cxx14, submits, call, ret, served,
                 nCalls, nConnCreated, nRequests, formVars, initVars>>

\* A call of a wrapper that takes only a URL (get, del, head, options).
CallUrl(t, M, U) == \E m \in M, u \in U : Call(t, m, u, "", "")
\* A call of a wrapper that takes a content type and a payload (post, put, patch).
CallBody(t, M, U, C) ==
  \E m \in M, u \in U, c \in C, d \in Payloads : Call(t, m, u, c, d)
\* A call of postForm with the thread's own PostFormInfo.
CallForm(t, U) == \E u \in U : Call(t, "postForm", u, "", "")

\* ------------------------------------------------------------ PostFormInfo
FreeNodes(h) == {a \in NodeAddrs : h[a].kind = "free"}
LowestFree(h) == CHOOSE a \in FreeNodes(h) : \A b \in FreeNodes(h) : a <= b

\* curl_formadd(&head, &last, COPYNAME name, FILE|COPYCONTENTS value, END):
\* on success a new node is linked after *last (or becomes *head when *last is
\* null) and *last is moved to it; on failure nothing is changed.
CurlFormAdd(h, head, last, f, ok) ==
  IF ok /\ FreeNodes(h) # {}
    THEN LET a == LowestFree(h)
             n == [kind |-> f.kind, name |-> f.name, value |-> f.value, next |-> NULL]
             h1 == [h EXCEPT ![a] = n]
         IN [code |-> FORMADD_OK,
             heap |-> IF last = NULL THEN h1 ELSE [h1 EXCEPT ![last].next = a],
             head |-> IF last = NULL THEN a ELSE head,
             last |-> a]
    ELSE [code |-> FORMADD_MEMORY, heap |-> h, head |-> head, last |-> last]

\* What an add method hands back to its caller: the methods are void and the
\* CURLFORMcode is dropped.
AddReturn(code) == "void"

\* Variant of AddField that passes &lastFormPtr and &formPtr the wrong way round.
AddFieldSwapped(t, f, ok) ==
  LET r == CurlFormAdd(heap, lastFormPtr[t], formPtr[t], f, ok)
  IN /\ alive[t]
     /\ pc[t] = 0
     /\ heap' = r.heap
     /\ formPtr' = [formPtr EXCEPT ![t] = r.last]
     /\ lastFormPtr' = [lastFormPtr EXCEPT ![t] = r.head]
     /\ appended' = [appended EXCEPT ![t] = IF r.code = FORMADD_OK THEN Append(@, f) ELSE @]
     /\ lastAdd' = [lastAdd EXCEPT ![t] =
                      [called |-> TRUE, code |-> r.code, reported |-> AddReturn(r.code)]]
     /\ UNCHANGED <<cxx14, submits, callVars, initVars, alive, headAtDtor, nFormFree>>

\* Body shared by addFormFile and addFormContent on the builder of thread t.
AddField(t, f, ok) ==
  LET r == CurlFormAdd(heap, formPtr[t], lastFormPtr[t], f, ok)
  IN /\ alive[t]
     /\ pc[t] = 0
     /\ heap' = r.heap
     /\ formPtr' = [formPtr EXCEPT ![t] = r.head]
     /\ lastFormPtr' = [lastFormPtr EXCEPT ![t] = r.last]
     /\ appended' = [appended EXCEPT ![t] = IF r.code = FORMADD_OK THEN Append(@, f) ELSE @]
     /\ lastAdd' = [lastAdd EXCEPT ![t] =
                      [called |-> TRUE, code |-> r.code, reported |-> AddReturn(r.code)]]
     /\ UNCHANGED <<cxx14, submits, callVars, initVars, alive, headAtDtor, nFormFree>>

\* PostFormInfo::addFormFile(fieldName, fieldValue)
AddFormFile(t, name, path, ok) ==
  AddField(t, [kind |-> "file", name |-> name, value |-> path], ok)

\* PostFormInfo::addFormContent(fieldName, fieldValue)
AddFormContent(t, name, value, ok) ==
  AddField(t, [kind |-> "content", name |-> name, value |-> value], ok)

\* PostFormInfo::PostFormInfo()
Ctor(t) ==
  /\ ~alive[t]
  /\ pc[t] = 0
  /\ alive' = [alive EXCEPT ![t] = TRUE]
  /\ formPtr' = [formPtr EXCEPT ![t] = NULL]
  /\ lastFormPtr' = [lastFormPtr EXCEPT ![t] = NULL]
  /\ appended' = [appended EXCEPT ![t] = <<>>]
  /\ lastAdd' = [lastAdd EXCEPT ![t] = NoAdd]
  /\ headAtDtor' = [headAtDtor EXCEPT ![t] = NULL]
  /\ nFormFree' = [nFormFree EXCEPT ![t] = 0]
  /\ submits' = [submits EXCEPT ![t] = 0]
  /\ UNCHANGED <<cxx14, callVars, initVars, heap>>

\* Variant of the destructor that frees the chain but keeps both pointers.
DtorKeepsPointers(t) ==
  /\ alive[t]
  /\ pc[t] = 0
  /\ alive' = [alive EXCEPT ![t] = FALSE]
  /\ headAtDtor' = [headAtDtor EXCEPT ![t] = formPtr[t]]
  /\ IF formPtr[t] # NULL
       THEN /\ heap' = CurlFormFree(heap, formPtr[t], MaxNodes + 1)
            /\ nFormFree' = [nFormFree EXCEPT ![t] = @ + 1]
       ELSE UNCHANGED <<heap, nFormFree>>
  /\ UNCHANGED <<cxx14, submits, callVars, initVars, appended, lastAdd,
                 formPtr, lastFormPtr>>

\* Variant of the destructor without the `if (this->formPtr)` guard.
DtorUnguarded(t) ==
  /\ alive[t]
  /\ pc[t] = 0
  /\ alive' = [alive EXCEPT ![t] = FALSE]
  /\ headAtDtor' = [headAtDtor EXCEPT ![t] = formPtr[t]]
  /\ heap' = CurlFormFree(heap, formPtr[t], MaxNodes + 1)
  /\ nFormFree' = [nFormFree EXCEPT ![t] = @ + 1]
  /\ formPtr' = [formPtr EXCEPT ![t] = NULL]
  /\ lastFormPtr' = [lastFormPtr EXCEPT ![t] = NULL]
  /\ UNCHANGED <<cxx14, submits, callVars, initVars, appended, lastAdd>>

\* PostFormInfo::~PostFormInfo()
Dtor(t) ==
  /\ alive[t]
  /\ pc[t] = 0
  /\ alive' = [alive EXCEPT ![t] = FALSE]
  /\ headAtDtor' = [headAtDtor EXCEPT ![t] = formPtr[t]]
  /\ IF formPtr[t] # NULL
       THEN /\ heap' = CurlFormFree(heap, formPtr[t], MaxNodes + 1)
            /\ nFormFree' = [nFormFree EXCEPT ![t] = @ + 1]
            /\ formPtr' = [formPtr EXCEPT ![t] = NULL]
            /\ lastFormPtr' = [lastFormPtr EXCEPT ![t] = NULL]
       ELSE UNCHANGED <<heap, nFormFree, formPtr, lastFormPtr>>
  /\ UNCHANGED <<cxx14, submits, callVars, initVars, appended, lastAdd>>

\* Field appends a caller may issue; ok: the transport has the resources.
AddCalls(t) ==
  \E ok \in BOOLEAN :
    \/ \E n \in FileNames, p \in FilePaths : AddFormFile(t, n, p, ok)
    \/ \E n \in ContentNames, v \in FieldValues : AddFormContent(t, n, v, ok)

\* ------------------------------------------------------- specifications
\* The statements of the wrappers, for thread t.
Statement(t) ==
  \/ DeclRet(t) \/ NewConn(t) \/ MakeUnique(t) \/ AppendHeader(t)
  \/ AssignCall(t) \/ ReturnCall(t) \/ DeleteConn(t) \/ ReturnRet(t) \/ ScopeExit(t)

\* One caller thread issuing every kind of request.
Next ==
  \E t \in MainThread :
    \/ CallUrl(t, UrlMethods, Urls)
    \/ CallBody(t, BodyMethods, Urls, CTypes)
    \/ CallForm(t, Urls)
    \/ Statement(t)
    \/ \E n \in OneName, v \in FieldValues : AddFormContent(t, n, v, TRUE)

Spec == Init /\ [][Next]_vars

\* One caller thread building forms, posting them and destroying them
\* (postForm has one body in both build variants).
NextForm ==
  \E t \in MainThread :
    \/ CallForm(t, OneUrl)
    \/ DeclRet(t) \/ NewConn(t) \/ AssignCall(t) \/ DeleteConn(t) \/ ReturnRet(t)
    \/ AddCalls(t) \/ Ctor(t) \/ Dtor(t)

SpecForm == Init /\ [][NextForm]_vars

\* Two caller threads, each with its own arguments and its own PostFormInfo
\* (a form of one field).
NextThreads ==
  \E t \in Threads :
    \/ CallUrl(t, {"get"}, OneUrl)
    \/ CallBody(t, {"post"}, OneUrl, OneCType)
    \/ CallForm(t, OneUrl)
    \/ Statement(t)
    \/ \E n \in OneName, v \in FieldValues :
         formPtr[t] = NULL /\ AddFormContent(t, n, v, TRUE)

SpecThreads == Init /\ [][NextThreads]_vars

\* The global lifecycle functions around requests of one caller thread.
NextInit ==
  \/ RestClientInit
  \/ RestClientDisable
  \/ \E t \in MainThread :
       \/ CallUrl(t, {"get", "options"}, OneUrl)
       \/ DeclRet(t) \/ NewConn(t) \/ MakeUnique(t) \/ AssignCall(t)
       \/ ReturnCall(t) \/ DeleteConn(t) \/ ReturnRet(t) \/ ScopeExit(t)

SpecInit == Init /\ [][NextInit]_vars

\* ------------------------------------------------------------ properties
OpCount(log, name) == Cardinality({i \in DOMAIN log : log[i][1] = name})
IsPrefix(a, b) == Len(a) <= Len(b) /\ \A i \in DOMAIN a : a[i] = b[i]
Completed(t) == pc[t] = 0 /\ call[t] # NoCall
\* Thread t's `conn` refers to a Connection it created and has not deleted.
OwnsConn(t) == conn[t] # NULL /\ Stmt(t) # "return_ret"
AllIdle == \A t \in Threads : pc[t] = 0

\* The Connection operations a call with arguments k must perform, in order.
ExpectedOps(k) ==
  <<<<"Connection", "">>>>
  \o (IF k.method \in BodyMethods
        THEN <<<<"AppendHeader", "Content-Type", k.ctype>>>> ELSE <<>>)
  \o <<<<k.method, k.url, k.data>>, <<"~Connection">>>>

\* C1: a destroyed PostFormInfo has invoked curl_formfree exactly once if its
\* formPtr was non-null when the destructor ran and not at all if it was null;
\* afterwards formPtr and lastFormPtr are both null and no node of its chain
\* is left to free a second time.
C1_DestructionFreesOnce ==
  \A t \in Threads :
    ~alive[t] =>
      /\ nFormFree[t] = (IF headAtDtor[t] # NULL THEN 1 ELSE 0)
      /\ formPtr[t] = NULL
      /\ lastFormPtr[t] = NULL
      /\ (headAtDtor[t] # NULL => heap[headAtDtor[t]].kind = "free")

C1_Witness ==
  /\ ~alive[1]
  /\ headAtDtor[1] # NULL
  /\ nFormFree[1] = 1
  /\ Len(appended[1]) >= 2

\* C2: every facade call creates exactly one Connection, with an empty base
\* URL, delegates exactly one request to it whatever the response, and has
\* destroyed it when the call returns; once all calls have returned no
\* Connection is live and the requests sent equal the calls made.
C2_OneConnectionOneRequest ==
  /\ nConnCreated - nConnDestroyed = Cardinality(LiveConns)
  /\ \A a \in LiveConns : conns[a].baseUrl = ""
  /\ \A t \in Threads :
       Completed(t) =>
         /\ OpCount(oplog[t], "Connection") = 1
         /\ oplog[t][1] = <<"Connection", "">>
         /\ OpCount(oplog[t], call[t].method) = 1
         /\ OpCount(oplog[t], "~Connection") = 1
         /\ oplog[t][Len(oplog[t])] = <<"~Connection">>
  /\ AllIdle =>
       /\ LiveConns = {}
       /\ nReturned = nCalls
       /\ nRequests = nCalls
       /\ nConnCreated = nCalls
       /\ nConnDestroyed = nCalls

C2_Witness ==
  /\ AllIdle
  /\ nCalls = 2
  /\ nRequests = 2
  /\ call[1].method = "options"
  /\ result[1].code = -1

\* C3: post, put and patch append Content-Type with exactly the caller's ctype
\* to the per-call Connection before the request is delegated, exactly once;
\* the other wrappers append nothing; so the request a call sends carries one
\* header override or none.
C3_ContentTypeBeforeRequest ==
  /\ \A a \in LiveConns : Len(conns[a].headers) <= 1
  /\ \A t \in Threads :
       /\ lastReq[t] # NoRequest =>
            lastReq[t].headers =
              (IF call[t].method \in BodyMethods
                 THEN <<<<"Content-Type", call[t].ctype>>>> ELSE <<>>)
       /\ Completed(t) =>
            OpCount(oplog[t], "AppendHeader") =
              (IF call[t].method \in BodyMethods THEN 1 ELSE 0)

C3_Witness ==
  /\ lastReq[1].method = "patch"
  /\ call[1].ctype = "application/json"
  /\ lastReq[1].headers = <<<<"Content-Type", "application/json">>>>

\* C4: the Response a facade call returns is exactly the Response the
\* delegated Connection method produced, for success and failure alike, and
\* destroying the Connection before returning does not change it.
C4_ResponsePassedThrough ==
  \A t \in Threads :
    /\ Completed(t) => result[t] = served[t]
    /\ Stmt(t) \in {"delete", "return_ret"} => ret[t] = served[t]
    /\ Stmt(t) = "scope_exit" => retval[t] = served[t]

C4_Witness ==
  /\ Completed(1)
  /\ call[1].method = "del"
  /\ result[1] = [code |-> -1, body |-> "Failed to query.", headers |-> {}]

\* C5: a postForm call leaves the caller's PostFormInfo (head, tail, fields,
\* liveness) unchanged and releases none of its nodes; a node is released
\* only in the step that destroys its builder, which calls curl_formfree once.
C5_PostFormBorrowsForm ==
  /\ [][\A t \in Threads :
          (pc[t] # 0 \/ pc'[t] # 0) =>
            /\ formPtr'[t] = formPtr[t]
            /\ lastFormPtr'[t] = lastFormPtr[t]
            /\ alive'[t] = alive[t]
            /\ Fields(t)' = Fields(t)]_vars
  /\ [][\A a \in NodeAddrs :
          (heap[a].kind # "free" /\ heap'[a].kind = "free") =>
            \E t \in Threads :
              /\ alive[t] /\ ~alive'[t]
              /\ nFormFree'[t] = 1]_vars

C5_Witness ==
  /\ alive[1]
  /\ submits[1] = 2
  /\ Completed(1)
  /\ Len(Fields(1)) >= 2
  /\ Fields(1) = appended[1]

\* C6: under every interleaving of addFormFile and addFormContent the chain
\* holds the successfully appended fields in call order, and the field
\* sequence a postForm request submits is that sequence.
C6_SubmissionOrderIsAppendOrder ==
  \A t \in Threads :
    /\ alive[t] => Fields(t) = appended[t]
    /\ lastReq[t].method = "postForm" => lastReq[t].form = appended[t]

C6_Witness ==
  /\ lastReq[1].method = "postForm"
  /\ Len(lastReq[1].form) = 3
  /\ lastReq[1].form[1].name = "A" /\ lastReq[1].form[1].kind = "file"
  /\ lastReq[1].form[2].name = "B"
  /\ lastReq[1].form[3].name = "C"

\* C7: two facade calls running on separate threads share no mutable state: a
\* step of one thread changes neither the other thread's locals, Connection,
\* result nor its PostFormInfo, the two calls never use the same Connection,
\* and each call returns the Response of its own request.
C7_ConcurrentCallsIndependent ==
  /\ [](\A t \in Threads, u \in Threads :
          /\ (t # u /\ OwnsConn(t) /\ OwnsConn(u)) => conn[t] # conn[u]
          /\ (Completed(t) \/ Stmt(t) \in {"delete", "return_ret"} \/ Stmt(t) = "scope_exit")
               => (IF Completed(t) THEN result[t]
                   ELSE IF Stmt(t) = "scope_exit" THEN retval[t] ELSE ret[t]) = served[t])
  /\ [][\A t \in Threads, u \in Threads :
          (t # u /\ pc'[t] # pc[t]) =>
            /\ ret'[u] = ret[u] /\ retval'[u] = retval[u] /\ conn'[u] = conn[u]
            /\ result'[u] = result[u] /\ served'[u] = served[u]
            /\ oplog'[u] = oplog[u] /\ lastReq'[u] = lastReq[u]
            /\ (OwnsConn(u) => conns'[conn[u]] = conns[conn[u]])
            /\ formPtr'[u] = formPtr[u] /\ Fields(u)' = Fields(u)]_vars

C7_Witness ==
  /\ call[1].method = "get" /\ call[2].method = "postForm"
  /\ Stmt(1) \in {"delete", "scope_exit"}
  /\ Stmt(2) = "delete"
  /\ served[1].code = 200
  /\ served[2].code = -1
  /\ Len(lastReq[2].form) >= 1

\* C8: every init call invokes curl_global_init exactly once and returns 0
\* iff it reported CURLE_OK and 1 for every other code; init and disable
\* leave all request and form state of this layer untouched, so a second init
\* performs a second transport initialization.
C8_InitReportsTransportResult ==
  /\ [](/\ curlInits = nInit
        /\ curlCleanups = nDisable
        /\ nInit > 0 => /\ (initRet = 0 <=> lastCurlCode = CURLE_OK)
                        /\ (lastCurlCode # CURLE_OK => initRet = 1))
  /\ [][(nInit' # nInit \/ nDisable' # nDisable) =>
          UNCHANGED <<cxx14, submits, callVars, formVars>>]_vars

C8_Witness ==
  /\ nInit = 2
  /\ curlInits = 2
  /\ lastCurlCode = 27
  /\ initRet = 1

\* C9: the add methods report nothing to their caller even when curl_formadd
\* fails; a live builder's formPtr is non-null iff at least one append has
\* succeeded; a builder all of whose appends failed is destroyed without any
\* curl_formfree.
C9_FailedAppendIsSilent ==
  \A t \in Threads :
    /\ lastAdd[t].reported = "void"
    /\ alive[t] => (formPtr[t] # NULL <=> Len(appended[t]) > 0)
    /\ (~alive[t] /\ appended[t] = <<>>) => nFormFree[t] = 0

C9_Witness ==
  /\ ~alive[1]
  /\ lastAdd[1].called
  /\ lastAdd[1].code = FORMADD_MEMORY
  /\ appended[1] = <<>>
  /\ nFormFree[1] = 0

\* C10: for get, post, put, del and head both build variants perform the same
\* sequence of Connection operations (construct with empty base URL, optional
\* Content-Type append, one request, destroy), return the Response the request
\* produced, and leave no Connection behind.
C10_BuildVariantsEquivalent ==
  \A t \in Threads :
    call[t].method \in VariantMethods =>
      /\ pc[t] # 0 => IsPrefix(oplog[t], ExpectedOps(call[t]))
      /\ Completed(t) =>
           /\ oplog[t] = ExpectedOps(call[t])
           /\ result[t] = served[t]
           /\ conn[t] = NULL
           /\ LiveConns = {}

C10_Witness ==
  /\ cxx14
  /\ Completed(1)
  /\ call[1].method = "put"
  /\ oplog[1] = ExpectedOps(call[1])
  /\ result[1].code = 404
====
